---- MODULE Spec2Model ----
(***************************************************************************)
(* A model of libtga (src/tga.c, src/tga.h): write_tga encodes a canonical *)
(* image into TGA bytes, load_tga2 decodes TGA bytes into a canonical      *)
(* image.  Indices are 0-based as in the C code; At(s, k) reads s[k] of a  *)
(* C array held as a TLA+ sequence.  byte is unsigned char (mod 256), word *)
(* is unsigned short (mod 65536); words are laid out little-endian in      *)
(* memory and on disk, as on the x86 builds of the library.                *)
(***************************************************************************)
EXTENDS Integers, Sequences, FiniteSets, TLC

VARIABLES
    ptga,           \* write_tga: the caller's image {width, height, channels, data}
    type,           \* write_tga: the tga_type asked for
    wpc,            \* write_tga: position in the function
    wret,           \* write_tga: return value ("none" while running)
    wfile,          \* write_tga: the FILE* stream: "none", "open", "closed"
    wcloses,        \* write_tga: number of fclose calls made
    disk,           \* the file at the destination path: [exists, bytes]
    colors,         \* write_tga: int colors
    palette_data,   \* write_tga: palette_data[0 .. colors*channels)
    color_data,     \* write_tga: color_data[0 .. pixels handled)
    i,              \* write_tga: row of the RLE loops
    j,              \* write_tga: column of the RLE loops
    duplicates,     \* write_tga: int duplicates
    different,      \* write_tga: int different
    packets,        \* history: the packets the RLE loop has emitted
    lpc,            \* load_tga2: position in the function
    lret,           \* load_tga2: return value ("none" while running)
    lfile,          \* load_tga2: the stream: "none", "open", "closed"
    lcloses,        \* load_tga2: number of close_file calls made
    pos,            \* load_tga2: read position of the stream
    reads,          \* load_tga2: number of read_file calls made
    shorts,         \* history: read_file calls that gave fewer items than asked
    seeks,          \* load_tga2: number of seek_file calls made
    header,         \* load_tga2: byte header[18]
    loaded,         \* load_tga2: the caller's *ptga {width, height, channels, data}
    mem,            \* load_tga2: the pixel buffer malloc gave: [live, d, ub, fault]
    cmap,           \* load_tga2: color_data: [live, d] (not live: NULL)
    li,             \* load_tga2: pixel index i of the RLE loops
    rle_id,         \* load_tga2: byte rle_id
    forig,          \* flips: the tga_image as it was before any flip
    fimg,           \* flips: the tga_image the flips work on
    fub,            \* flips: a flip has touched memory outside the pixel buffer
    fops            \* history: the flips applied, "h" or "v", in order

\* the variables of the flip calls
fvars == <<forig, fimg, fub, fops>>
\* what load_tga2 leaves alone: the variables of write_tga and of the flips
wvars == <<ptga, type, wpc, wret, wfile, wcloses, disk, colors, palette_data,
           color_data, i, j, duplicates, different, packets, fvars>>
\* what write_tga leaves alone: the variables of load_tga2 and of the flips
lvars == <<lpc, lret, lfile, lcloses, pos, reads, shorts, seeks, header, loaded,
           mem, cmap, li, rle_id, fvars>>
\* what the flips leave alone: the variables of write_tga and of load_tga2
cvars == <<ptga, type, wpc, wret, wfile, wcloses, disk, colors, palette_data,
           color_data, i, j, duplicates, different, packets,
           lpc, lret, lfile, lcloses, pos, reads, shorts, seeks, header, loaded,
           mem, cmap, li, rle_id>>
vars == <<wvars, lvars>>

----------------------------------------------------------------------------
(* Bounds of the model and constants of the program.                       *)

MaxSmall == 2       \* short segments of a row hold 1..MaxSmall pixels
MaxWidth == 129     \* long segments hold PacketMax-1..MaxWidth pixels
MaxHeight == 2      \* rows of an image
PacketMax == 128    \* "A packet cannot contain more than 128 colors"
PaletteMax == 256   \* "Supports only 256 colors"

TGA_TYPE_NO_IMAGE == 0
TGA_TYPE_MAPPED == 1
TGA_TYPE_RGB == 2
TGA_TYPE_BW == 3
TGA_TYPE_MAPPED_RLE == 9
TGA_TYPE_RGB_RLE == 10
TGA_TYPE_BW_RLE == 11

\* the largest int: width * height * channels is computed in int
INT_MAX == 2147483647

\* what a byte nobody has written holds: some value of 0..255 that differs
\* from run to run and from byte to byte; it is carried as this mark, and a
\* value computed from it is indeterminate too
Indeterminate == -1

\* enum tga_type
tga_type == {"TGA_MAPPED", "TGA_RGB", "TGA_RGB16", "TGA_BW", "TGA_BW8",
             "TGA_MAPPED_RLE", "TGA_RGB_RLE", "TGA_RGB16_RLE", "TGA_BW_RLE",
             "TGA_BW8_RLE"}

\* the members no branch of write_tga names
UnhandledTypes == {"TGA_BW8", "TGA_BW8_RLE"}

RleTypes == {"TGA_MAPPED_RLE", "TGA_RGB_RLE", "TGA_RGB16_RLE", "TGA_BW_RLE"}

----------------------------------------------------------------------------
(* C arithmetic.                                                           *)

byte(x) == x % 256
word(x) == x % 65536
At(s, k) == s[k + 1]
Lo(w) == w % 256
Hi(w) == (w \div 256) % 256
\* x | 0x80 on a byte
Or80(x) == IF (x \div 128) % 2 = 1 THEN x ELSE x + 128
\* x & 0x80 on a byte
Bit80(x) == (x \div 128) % 2 = 1

\* a * b > INT_MAX for a, b >= 0
TimesOverflows(a, b) == a > 0 /\ b > INT_MAX \div a

\* the 16-bit halves <<high, low>> of the 32-bit pattern of the int v
Halves(v) == <<(v \div 65536) % 65536, v % 65536>>
\* the int of the 32-bit pattern with these halves (two's complement)
FromHalves(high, low) ==
    IF high >= 32768 THEN (high - 65536) * 65536 + low ELSE high * 65536 + low
\* x * b for a 16-bit half x and 0 <= b <= 65535, as <<carry, low half>>
HalfTimes(x, b) ==
    LET p == x * (b % 256)
        q == x * (b \div 256)
        s == p + (q % 256) * 256
    IN  <<(s \div 65536) + (q \div 256), s % 65536>>
\* a * b as the builds compute it in 32 bits, for 0 <= b <= 65535: the low
\* 32 bits of the product, negative from 2^31 on
IntTimes(a, b) ==
    LET lowp == HalfTimes(Halves(a)[2], b)
        highp == HalfTimes(Halves(a)[1], b)
    IN  FromHalves((lowp[1] + highp[2]) % 65536, lowp[2])

\* an image of more than INT_MAX bytes is of one colour and is kept by it:
\* img.data holds the bytes of one pixel, which every pixel of the image has
Solid(img) ==
    \/ TimesOverflows(img.width, img.height)
    \/ TimesOverflows(img.width * img.height, img.channels)

\* the canonical bytes of pixel p of an image
Px(img, p) ==
    IF Solid(img) THEN img.data
    ELSE SubSeq(img.data, p * img.channels + 1, (p + 1) * img.channels)

\* the n chunks chunk[0], ..., chunk[n-1], each of `size` bytes, one after the other
Chunks(chunk, n, size) ==
    [k \in 1..(n * size) |-> chunk[(k - 1) \div size][((k - 1) % size) + 1]]

----------------------------------------------------------------------------
(* Pixel format converters of the encoder.                                 *)

\* rgb2bw: luminance in the low byte, alpha (or 255) in the high byte
rgb2bw(data, channels) ==
    LET lum == word((data[1] + data[2] + data[3]) \div 3)
    IN  IF channels = 4 THEN word(lum + data[4] * 256)
        ELSE word(lum + 255 * 256)

\* canonical -> packed 5-5-5 with the alpha bit (TGA_RGB16, TGA_RGB16_RLE)
Pack16(data, channels) ==
    (data[1] \div 8) * 1024 + (data[2] \div 8) * 32 + (data[3] \div 8)
    + (IF channels = 4 THEN (IF data[4] # 0 THEN 32768 ELSE 0) ELSE 32768)

\* a word as fwrite(&pixel, sizeof(word), 1, file) lays it out
WordBytes(w) == <<Lo(w), Hi(w)>>

\* canonical R,G,B[,A] -> file B,G,R[,A] (TGA_RGB, TGA_RGB_RLE)
SwapRB(data, channels) ==
    IF channels = 4 THEN <<data[3], data[2], data[1], data[4]>>
    ELSE <<data[3], data[2], data[1]>>

----------------------------------------------------------------------------
(* Palette builder of write_tga (TGA_MAPPED, TGA_MAPPED_RLE).              *)

\* a faulty variant of SameColor that leaves out the alpha comparison
SameColorMut(pal, channels, t, color) ==
    LET jj == color * channels
    IN  /\ t[3] = At(pal, jj + 0)
        /\ t[2] = At(pal, jj + 1)
        /\ t[1] = At(pal, jj + 2)

\* the comparisons of the inner loop: palette entry `color` equals pixel t
SameColor(pal, channels, t, color) ==
    LET jj == color * channels
    IN  /\ t[3] = At(pal, jj + 0)
        /\ t[2] = At(pal, jj + 1)
        /\ t[1] = At(pal, jj + 2)
        /\ (channels = 4 => t[4] = At(pal, jj + 3))

\* the inner loop over the entries lo .. hi-1 in rising order: the first
\* entry that equals the pixel t, or -1 (found stays false).  The scan is
\* split in halves, left half first, to keep the evaluation shallow.
RECURSIVE FindColor(_, _, _, _, _)
FindColor(pal, channels, t, lo, hi) ==
    IF hi <= lo THEN -1
    ELSE IF hi = lo + 1
    THEN (IF SameColor(pal, channels, t, lo) THEN lo ELSE -1)
    ELSE LET mid == (lo + hi) \div 2
             left == FindColor(pal, channels, t, lo, mid)
         IN  IF left >= 0 THEN left ELSE FindColor(pal, channels, t, mid, hi)

\* a new palette entry: B,G,R[,A]
PaletteEntry(t, channels) == SwapRB(t, channels)

\* the body of the outer loop for pixel p; st = [colors, palette_data, color_data]
PaletteStep(img, p, st) ==
    LET t == Px(img, p)
        c == FindColor(st.palette_data, img.channels, t, 0, st.colors)
    IN  IF c >= 0
        THEN [st EXCEPT !.color_data = Append(@, byte(c))]
        ELSE [colors |-> st.colors + 1,
              palette_data |-> st.palette_data \o PaletteEntry(t, img.channels),
              color_data |-> Append(st.color_data, byte(st.colors))]

\* the outer loop over the pixels lo .. hi-1 in rising order.  The range is
\* split in halves, left half first; the test on `left` is always false and
\* only makes the left half be evaluated before the right half starts.
RECURSIVE PaletteLoop(_, _, _, _)
PaletteLoop(img, lo, hi, st) ==
    IF hi <= lo THEN st
    ELSE IF hi = lo + 1 THEN PaletteStep(img, lo, st)
    ELSE LET mid == (lo + hi) \div 2
             left == PaletteLoop(img, lo, mid, st)
         IN  IF left.colors < 0 THEN left ELSE PaletteLoop(img, mid, hi, left)

BuildPalette(img) ==
    PaletteLoop(img, 0, img.width * img.height,
                [colors |-> 0, palette_data |-> <<>>, color_data |-> <<>>])

----------------------------------------------------------------------------
(* Header serialization of write_tga.                                      *)

IsMapped(t) == t \in {"TGA_MAPPED", "TGA_MAPPED_RLE"}

ImageTypeOf(t) ==
    CASE t = "TGA_MAPPED" -> TGA_TYPE_MAPPED
      [] t = "TGA_MAPPED_RLE" -> TGA_TYPE_MAPPED_RLE
      [] t = "TGA_RGB" -> TGA_TYPE_RGB
      [] t = "TGA_RGB_RLE" -> TGA_TYPE_RGB_RLE
      [] t = "TGA_RGB16" -> TGA_TYPE_RGB
      [] t = "TGA_RGB16_RLE" -> TGA_TYPE_RGB_RLE
      [] t = "TGA_BW" -> TGA_TYPE_BW
      [] t = "TGA_BW_RLE" -> TGA_TYPE_BW_RLE
      [] OTHER -> Indeterminate       \* byte image_type; is never assigned

BitsOf(t, channels) ==
    CASE IsMapped(t) -> 8
      [] t \in {"TGA_RGB", "TGA_RGB_RLE"} -> byte(channels * 8)
      [] t \in {"TGA_RGB16", "TGA_RGB16_RLE"} -> IF channels = 4 THEN 16 ELSE 15
      [] t \in {"TGA_BW", "TGA_BW_RLE"} -> 16
      [] OTHER -> Indeterminate       \* byte bits; is never assigned

\* (unsigned char)color_map_length % 256: the cast applies before the %
MapLengthLo(color_map_length) == byte(color_map_length) % 256
\* (unsigned char)color_map_length / 256: the cast applies before the /
MapLengthHi(color_map_length) == byte(color_map_length) \div 256

Header(img, t, ncolors) ==
    LET color_map_type == IF IsMapped(t) THEN 1 ELSE 0
        first_entry_index == 0
        color_map_length == IF IsMapped(t) THEN word(ncolors) ELSE 0
        color_map_entry_size == IF IsMapped(t) THEN byte(img.channels * 8) ELSE 0
    IN  << 0, color_map_type, ImageTypeOf(t),
           byte(first_entry_index) % 256,
           byte(first_entry_index) \div 256,
           MapLengthLo(color_map_length),
           MapLengthHi(color_map_length),
           color_map_entry_size, 0, 0, 0, 0,
           byte(img.width % 256),
           byte(img.width \div 256),
           byte(img.height % 256),
           byte(img.height \div 256),
           BitsOf(t, img.channels),
           0 >>

----------------------------------------------------------------------------
(* Pixel data of the uncompressed branches of write_tga.                   *)

PixelBytes(img, t, p) ==
    CASE t = "TGA_RGB" -> SwapRB(Px(img, p), img.channels)
      [] t = "TGA_RGB16" -> WordBytes(Pack16(Px(img, p), img.channels))
      [] t = "TGA_BW" -> WordBytes(rgb2bw(Px(img, p), img.channels))

\* int size = ptga->width * ptga->height * ptga->channels;
SizeOf(img) == IntTimes(IntTimes(img.width, img.height), img.channels)

\* the passes of "for (int i = 0; i < size; i += ptga->channels)"
Passes(size, channels) ==
    IF size <= 0 THEN 0 ELSE ((size - 1) \div channels) + 1

\* no branch writes pixel data for TGA_BW8 and TGA_BW8_RLE
RawBody(img, t) ==
    LET n == Passes(SizeOf(img), img.channels)
        chunk == [p \in 0..(n - 1) |-> PixelBytes(img, t, p)]
    IN  IF t \in UnhandledTypes THEN <<>>
        ELSE Chunks(chunk, n, IF t = "TGA_RGB" THEN img.channels ELSE 2)

----------------------------------------------------------------------------
(* RLE encoder of write_tga: the four branches share one loop and differ   *)
(* in how two pixels compare and in what is stored for a pixel.            *)

\* bw_data[p] of the TGA_BW_RLE branch
bw_data(img, p) == rgb2bw(Px(img, p), img.channels)

\* the test "pixel p equals pixel q" of each branch
SamePixel(img, t, cdata, p, q) ==
    CASE t = "TGA_MAPPED_RLE" -> At(cdata, p) = At(cdata, q)
      [] t \in {"TGA_RGB_RLE", "TGA_RGB16_RLE"} -> Px(img, p) = Px(img, q)
      [] t = "TGA_BW_RLE" -> bw_data(img, p) = bw_data(img, q)

\* the bytes stored for pixel p in each branch
Stored(img, t, cdata, p) ==
    CASE t = "TGA_MAPPED_RLE" -> <<At(cdata, p)>>
      [] t = "TGA_RGB_RLE" -> SwapRB(Px(img, p), img.channels)
      [] t = "TGA_RGB16_RLE" -> WordBytes(Pack16(Px(img, p), img.channels))
      [] t = "TGA_BW_RLE" -> WordBytes(bw_data(img, p))

\* a faulty variant of RunMayGrow that is off by one
RunMayGrowMut(dups) == dups + 1 <= PacketMax

\* "duplicates + 1 < 128": the run may still grow
RunMayGrow(dups) == dups + 1 < PacketMax
\* a faulty variant of RawMayGrow that is off by one
RawMayGrowMut(diff) == diff + 1 <= PacketMax

\* "different + 1 < 128": the raw packet may still grow
RawMayGrow(diff) == diff + 1 < PacketMax

\* byte rle_id = duplicates + 1; rle_id |= 1 << 7; rle_id--;
RunHeader(dups) == byte(Or80(byte(dups + 1)) + 255)
\* byte rle_id = different + 1; rle_id--;
RawHeader(diff) == byte(byte(diff + 1) + 255)

\* the pixels first .. last stored one after the other
StoredSize(img, t) ==
    CASE t = "TGA_MAPPED_RLE" -> 1
      [] t = "TGA_RGB_RLE" -> img.channels
      [] t \in {"TGA_RGB16_RLE", "TGA_BW_RLE"} -> 2

StoredRange(img, t, cdata, first, last) ==
    LET chunk == [k \in 0..(last - first) |-> Stored(img, t, cdata, first + k)]
    IN  Chunks(chunk, last - first + 1, StoredSize(img, t))

\* a faulty variant of MoreInRow that tests the end of the image, not of the row
MoreInRowMut(img, ri, cj) == (ri * img.width) + cj + 1 < img.width * img.height

\* "j + 1 < ptga->width": the row has a pixel after column cj
MoreInRow(img, ri, cj) == cj + 1 < img.width

(* One pass through the body of the column loop at row ri, column cj with  *)
(* the counters dups and diff.  The result gives the counters and the      *)
(* column after the pass (before the loop's j++), the bytes written and    *)
(* the packet emitted (kind "none" when the pass only counts).             *)
RlePass(img, t, cdata, ri, cj, dups, diff) ==
    LET index == ri * img.width + cj
        more == MoreInRow(img, ri, cj)
        same == more /\ SamePixel(img, t, cdata, index, index + 1)
        nothing == [kind |-> "none", count |-> 0, hdr |-> 0, row |-> ri, col |-> cj]
    IN  IF diff = 0 /\ same /\ RunMayGrow(dups)
        THEN \* duplicates++; continue;
             [duplicates |-> dups + 1, different |-> diff, j |-> cj,
              out |-> <<>>, packet |-> nothing]
        ELSE IF dups # 0
        THEN \* write a run-length packet; duplicates = 0; continue;
             [duplicates |-> 0, different |-> diff, j |-> cj,
              out |-> <<RunHeader(dups)>> \o Stored(img, t, cdata, index),
              packet |-> [kind |-> "run", count |-> dups + 1, hdr |-> RunHeader(dups),
                          row |-> ri, col |-> cj - dups]]
        ELSE IF RawMayGrow(diff) /\ more /\ ~same
        THEN \* different++; continue;
             [duplicates |-> dups, different |-> diff + 1, j |-> cj,
              out |-> <<>>, packet |-> nothing]
        ELSE \* (different--; j--; index--;) write a raw packet; different = 0;
             LET back == RawMayGrow(diff) /\ more
                 d2 == IF back THEN diff - 1 ELSE diff
                 j2 == IF back THEN cj - 1 ELSE cj
                 index2 == IF back THEN index - 1 ELSE index
             IN  [duplicates |-> dups, different |-> 0, j |-> j2,
                  out |-> <<RawHeader(d2)>>
                          \o StoredRange(img, t, cdata, index2 - d2, index2),
                  packet |-> [kind |-> "raw", count |-> d2 + 1, hdr |-> RawHeader(d2),
                              row |-> ri, col |-> j2 - d2]]

----------------------------------------------------------------------------
(* The images write_tga is called with.  A row is one or two segments; a   *)
(* segment is a run (equal pixels) or a ramp (pairwise different pixels).  *)
(* Colours are numbered; the variant maps a number to channel bytes.       *)

ShortLens == 1..MaxSmall
LongLens == (PacketMax - 1)..MaxWidth
Segments(lens) == [run : BOOLEAN, len : lens]

ShortShapes ==
    {<<>>} \cup {<<s>> : s \in Segments(ShortLens)}
           \cup {<<s, t>> : s \in Segments(ShortLens), t \in Segments(ShortLens)}
LongShapes ==
    {<<s>> : s \in Segments(LongLens)}
    \cup {sh \in {<<s, t>> : s \in Segments(ShortLens), t \in Segments(LongLens)}
                 \cup {<<t, s>> : s \in Segments(ShortLens), t \in Segments(LongLens)} :
            sh[1].len + sh[2].len <= MaxWidth}

ShapeWidth(shape) ==
    IF Len(shape) = 0 THEN 0
    ELSE IF Len(shape) = 1 THEN shape[1].len ELSE shape[1].len + shape[2].len

\* the colour number of column c of a row
ColourOf(shape, c) ==
    IF c < shape[1].len
    THEN (IF shape[1].run THEN 0 ELSE c)
    ELSE (IF shape[2].run THEN shape[1].len ELSE c)

\* the channel bytes R,G,B,A of colour number k
Tuple(variant, k) ==
    CASE variant \in {"wide", "shift"} ->
             <<255 - (k % 256), (k \div 256) % 256, k % 256, (k * 85) % 256>>
      [] variant = "alt" ->
             <<255 - (k % 2), 0, k % 2, ((k % 2) * 85) % 256>>
      [] variant = "alpha" ->
             <<10, 20, 30, (k * 85) % 256>>
      [] variant = "grey" ->   \* R = G = B
             <<200 - (k % 128), 200 - (k % 128), 200 - (k % 128), (k * 85) % 256>>
      [] variant = "five" ->   \* multiples of 8, alpha 0 or 255
             <<248 - (8 * (k % 32)), 8 * (k % 32), 8 * ((k \div 2) % 32),
               255 * (k % 2)>>

MakeImage(shape, variant, channels, height) ==
    LET width == ShapeWidth(shape)
        pix == [p \in 0..(width * height - 1) |->
                   LET r == p \div width
                       c == p % width
                       k == ColourOf(shape, c)
                            + (IF variant = "shift" THEN r * width ELSE 0)
                   IN  SubSeq(Tuple(variant, k), 1, channels)]
    IN  [width |-> width, height |-> height, channels |-> channels,
         data |-> Chunks(pix, width * height, channels)]

SmallImages ==
    {MakeImage(sh, v, ch, h) :
        sh \in ShortShapes, v \in {"wide", "alt", "alpha", "five", "grey"}, ch \in {3, 4}, h \in 0..MaxHeight}
LongImages ==
    {MakeImage(sh, "wide", ch, 1) : sh \in LongShapes, ch \in {3, 4}}
\* one row of PaletteMax-1 .. PaletteMax+MaxSmall pairwise different pixels
ManyColourImages ==
    {MakeImage(<<[run |-> FALSE, len |-> n]>>, "wide", ch, 1) :
        n \in (PaletteMax - 1)..(PaletteMax + MaxSmall), ch \in {3, 4}}

\* one row of 1..MaxSmall equal pixels
PlainImages ==
    {MakeImage(<<[run |-> TRUE, len |-> n]>>, "alt", ch, 1) :
        n \in ShortLens, ch \in {3, 4}}

\* images of one colour whose width * height * channels does not fit an int
HugeImages ==
    {[width |-> side, height |-> side, channels |-> 3, data |-> <<10, 20, 30>>] :
        side \in {32768, 65535}}

SaveCalls ==
    ((SmallImages \cup LongImages) \X (tga_type \ UnhandledTypes))
    \cup (PlainImages \X UnhandledTypes)
    \cup (ManyColourImages \X {"TGA_MAPPED", "TGA_MAPPED_RLE", "TGA_RGB"})
    \cup (HugeImages \X {"TGA_RGB"})

----------------------------------------------------------------------------
(* write_tga, step by step.                                                *)

NoPacket == <<>>

\* FILE *file = fopen(filename, "wb"); if (!file) return false;
write_tga_open ==
    /\ wpc = "open"
    /\ UNCHANGED lvars
    /\ \E ok \in BOOLEAN :
          IF ok
          THEN /\ wfile' = "open"
               /\ disk' = [exists |-> TRUE, bytes |-> <<>>]
               /\ wpc' = IF IsMapped(type) THEN "palette" ELSE "header"
               /\ wret' = wret
          ELSE /\ wfile' = wfile
               /\ disk' = disk
               /\ wpc' = "returned"
               /\ wret' = FALSE
    /\ UNCHANGED <<ptga, type, wcloses, colors, palette_data, color_data,
                   i, j, duplicates, different, packets>>

\* the palette loop, then "if (colors > 256) { free; free; return false; }"
write_tga_palette ==
    /\ wpc = "palette"
    /\ UNCHANGED lvars
    /\ LET pal == BuildPalette(ptga)
       IN  /\ colors' = pal.colors
           /\ palette_data' = pal.palette_data
           /\ color_data' = pal.color_data
           /\ IF pal.colors > PaletteMax
              THEN wpc' = "returned" /\ wret' = FALSE
              ELSE wpc' = "header" /\ wret' = wret
    /\ UNCHANGED <<ptga, type, wfile, wcloses, disk, i, j, duplicates, different, packets>>

\* fwrite(header, sizeof(header), 1, file);
write_tga_header ==
    /\ wpc = "header"
    /\ UNCHANGED lvars
    /\ disk' = [disk EXCEPT !.bytes = @ \o Header(ptga, type, colors)]
    /\ wpc' = "pixels"
    /\ UNCHANGED <<ptga, type, wret, wfile, wcloses, colors, palette_data, color_data,
                   i, j, duplicates, different, packets>>

\* the branches TGA_MAPPED, TGA_RGB, TGA_RGB16, TGA_BW
write_tga_pixels ==
    /\ wpc = "pixels"
    /\ UNCHANGED lvars
    /\ type \notin RleTypes
    /\ disk' = [disk EXCEPT !.bytes =
                   @ \o (IF type = "TGA_MAPPED" THEN palette_data \o color_data
                         ELSE RawBody(ptga, type))]
    /\ wpc' = "close"
    /\ UNCHANGED <<ptga, type, wret, wfile, wcloses, colors, palette_data, color_data,
                   i, j, duplicates, different, packets>>

\* entering an RLE branch: the palette (TGA_MAPPED_RLE), the counters, the loops
write_tga_rle_begin ==
    /\ wpc = "pixels"
    /\ UNCHANGED lvars
    /\ type \in RleTypes
    /\ disk' = [disk EXCEPT !.bytes =
                   @ \o (IF type = "TGA_MAPPED_RLE" THEN palette_data ELSE <<>>)]
    /\ duplicates' = 0
    /\ different' = 0
    /\ i' = 0
    /\ j' = 0
    /\ wpc' = IF ptga.height > 0 /\ ptga.width > 0 THEN "rle" ELSE "close"
    /\ UNCHANGED <<ptga, type, wret, wfile, wcloses, colors, palette_data, color_data,
                   packets>>

\* one pass of the column loop, then j++ and the loop tests
write_tga_rle_step ==
    /\ wpc = "rle"
    /\ UNCHANGED lvars
    /\ LET r == RlePass(ptga, type, color_data, i, j, duplicates, different)
           jn == r.j + 1
       IN  /\ duplicates' = r.duplicates
           /\ different' = r.different
           /\ disk' = [disk EXCEPT !.bytes = @ \o r.out]
           /\ packets' = IF r.packet.kind = "none" THEN packets
                         ELSE Append(packets, r.packet)
           /\ IF jn < ptga.width
              THEN i' = i /\ j' = jn /\ wpc' = wpc
              ELSE IF i + 1 < ptga.height
              THEN i' = i + 1 /\ j' = 0 /\ wpc' = wpc
              ELSE i' = i + 1 /\ j' = jn /\ wpc' = "close"
    /\ UNCHANGED <<ptga, type, wret, wfile, wcloses, colors, palette_data, color_data>>

\* fclose(file); return true;
write_tga_close ==
    /\ wpc = "close"
    /\ UNCHANGED lvars
    /\ wfile' = "closed"
    /\ wcloses' = wcloses + 1
    /\ wret' = TRUE
    /\ wpc' = "returned"
    /\ UNCHANGED <<ptga, type, disk, colors, palette_data, color_data,
                   i, j, duplicates, different, packets>>

write_tga ==
    \/ write_tga_open
    \/ write_tga_palette
    \/ write_tga_header
    \/ write_tga_pixels
    \/ write_tga_rle_begin
    \/ write_tga_rle_step
    \/ write_tga_close

----------------------------------------------------------------------------
(* Memory and stream of load_tga2.  A buffer is the sequence of its bytes; *)
(* a byte nobody has written is Indeterminate.  A read outside the buffer  *)
(* gives an indeterminate byte and a write outside it leaves the buffer as *)
(* it is; both set ub: the C behaviour is undefined from there on, and the *)
(* process may be killed at that step or at any later one.  A read or a    *)
(* write through a NULL pointer (a buffer that is not live) sets fault:    *)
(* the process is killed there.                                            *)

Min(a, b) == IF a < b THEN a ELSE b

\* malloc(n): n bytes nobody has written
Malloc(n, g) == [k \in 1..n |-> g]

InBuf(buf, k) == k >= 0 /\ k < Len(buf)
\* buf[k]
Rd(buf, k, g) == IF InBuf(buf, k) THEN buf[k + 1] ELSE g
\* the process is killed at this access
Fault(m) == [m EXCEPT !.fault = TRUE, !.ub = TRUE]
\* m.d[k] = v
Set(m, k, v) ==
    IF ~m.live THEN Fault(m)
    ELSE IF InBuf(m.d, k) THEN [m EXCEPT !.d[k + 1] = v]
    ELSE [m EXCEPT !.ub = TRUE]
\* the read of m.d[k] is noted when it falls outside the buffer (ok is FALSE)
Touch(m, ok) ==
    IF ~m.live THEN Fault(m)
    ELSE IF ok THEN m
    ELSE [m EXCEPT !.ub = TRUE]

\* read_file(dst, 1, n, file) on the bytes `stream` at position `at`: the
\* bytes the stream still has, at most n
Avail(stream, at, n) == SubSeq(stream, at + 1, Min(at + n, Len(stream)))

\* 1 when read_file was asked for `want` bytes and got fewer, else 0
Short(want, got) == IF Len(got) < want THEN 1 ELSE 0

\* the count of a read_file call is a size_t: a negative int is a count
\* beyond any file, as is a count above the length of the stream
Beyond(stream, count) == count < 0 \/ count > Len(stream)

\* read_file(dst, size, count, file) with an int count: the bytes the stream
\* still has, at most size * count
Fetch(stream, at, size, count) ==
    IF Beyond(stream, count) THEN SubSeq(stream, at + 1, Len(stream))
    ELSE Avail(stream, at, count * size)

\* 1 when that call got fewer bytes than asked for, else 0
Missed(stream, size, count, got) ==
    IF Beyond(stream, count) THEN 1 ELSE Short(count * size, got)

\* the bytes `got` that read_file copies land at m.d[off ..]; nothing is
\* stored when there are none, and a copy to a NULL buffer kills the process
Store(m, off, got) ==
    IF ~m.live THEN (IF Len(got) > 0 THEN Fault(m) ELSE m)
    ELSE [m EXCEPT !.d = [k \in 1..Len(m.d) |->
                             IF k - 1 >= off /\ k - 1 < off + Len(got)
                             THEN got[k - off] ELSE m.d[k]],
                   !.ub = @ \/ (Len(got) > 0
                                /\ (off < 0 \/ off + Len(got) > Len(m.d)))]

\* little-endian 16-bit fields of the header
Word16(lo, hi) == word(hi * 256 + lo)
H_id_length(h) == At(h, 0)
H_color_map_type(h) == At(h, 1)
H_image_type(h) == At(h, 2)
H_first_entry_index(h) == Word16(At(h, 3), At(h, 4))
H_color_map_length(h) == Word16(At(h, 5), At(h, 6))
H_color_map_entry_size(h) == At(h, 7)
H_x_origin(h) == Word16(At(h, 8), At(h, 9))
H_y_origin(h) == Word16(At(h, 10), At(h, 11))
H_width(h) == Word16(At(h, 12), At(h, 13))
H_height(h) == Word16(At(h, 14), At(h, 15))
H_bits_per_pixel(h) == At(h, 16)

\* color_channels = (color_map_entry_size / 8), 0 without a colour map
ColorChannels(h) ==
    IF H_color_map_type(h) # 0 THEN H_color_map_entry_size(h) \div 8 ELSE 0

\* a faulty variant of Branch whose black-and-white test forgets the pixel size
BranchMut(image_type, bits) ==
    CASE image_type = TGA_TYPE_MAPPED /\ bits = 8 -> "mapped"
      [] image_type = TGA_TYPE_RGB /\ bits \in {24, 32} -> "rgb"
      [] image_type = TGA_TYPE_RGB /\ bits \in {15, 16} -> "rgb16"
      [] image_type = TGA_TYPE_BW -> "bw"
      [] image_type = TGA_TYPE_MAPPED_RLE /\ bits = 8 -> "mapped_rle"
      [] image_type = TGA_TYPE_RGB_RLE /\ bits \in {24, 32} -> "rgb_rle"
      [] image_type = TGA_TYPE_RGB_RLE /\ bits \in {15, 16} -> "rgb16_rle"
      [] image_type = TGA_TYPE_BW_RLE /\ bits = 16 -> "bw_rle"
      [] OTHER -> "none"

\* the branch of the if / else-if chain taken for (image_type, bits_per_pixel),
\* "none" when no branch sets success
Branch(image_type, bits) ==
    CASE image_type = TGA_TYPE_MAPPED /\ bits = 8 -> "mapped"
      [] image_type = TGA_TYPE_RGB /\ bits \in {24, 32} -> "rgb"
      [] image_type = TGA_TYPE_RGB /\ bits \in {15, 16} -> "rgb16"
      [] image_type = TGA_TYPE_BW /\ bits = 16 -> "bw"
      [] image_type = TGA_TYPE_MAPPED_RLE /\ bits = 8 -> "mapped_rle"
      [] image_type = TGA_TYPE_RGB_RLE /\ bits \in {24, 32} -> "rgb_rle"
      [] image_type = TGA_TYPE_RGB_RLE /\ bits \in {15, 16} -> "rgb16_rle"
      [] image_type = TGA_TYPE_BW_RLE /\ bits = 16 -> "bw_rle"
      [] OTHER -> "none"

\* int channels of the branch
Channels(h) ==
    LET b == Branch(H_image_type(h), H_bits_per_pixel(h))
    IN  CASE b \in {"mapped", "mapped_rle"} -> ColorChannels(h)
          [] b \in {"rgb", "rgb_rle"} -> H_bits_per_pixel(h) \div 8
          [] b \in {"rgb16", "rgb16_rle"} -> IF H_bits_per_pixel(h) = 16 THEN 4 ELSE 3
          [] b \in {"bw", "bw_rle"} -> 4
          [] OTHER -> 0

----------------------------------------------------------------------------
(* Pixel format converters of the decoder.  m is the pixel buffer, cd the  *)
(* colour map [live, d] (live FALSE: color_data is NULL), cc               *)
(* color_channels, ch channels, g what an unwritten byte holds.            *)

\* an operand of a converter: a local variable holding v, or the bytes of
\* the pixel buffer at offset v, which the converter's own stores may change
Local(v) == [inmem |-> FALSE, v |-> v]
InData(src) == [inmem |-> TRUE, v |-> src]

\* the 8-bit index an operand stands for, given the buffer as it is now
IndexOf(m, opnd, g) == IF opnd.inmem THEN Rd(m.d, opnd.v, g) ELSE opnd.v

\* color_data[index * cc + c]; an indeterminate index reads an
\* indeterminate byte
MapRead(cd, index, cc, c, g) ==
    IF index = Indeterminate THEN g ELSE Rd(cd.d, (index * cc) + c, g)
\* the read stays inside the colour map, whatever an indeterminate index is
MapSeen(cd, index, cc, c) ==
    IF index = Indeterminate THEN InBuf(cd.d, (255 * cc) + c)
    ELSE InBuf(cd.d, (index * cc) + c)
\* the read of color_data is noted: a fault when color_data is NULL
Deref(m, cd, ok) ==
    IF ~cd.live THEN Fault(m)
    ELSE IF ok THEN m
    ELSE [m EXCEPT !.ub = TRUE]

\* palette lookup of the index `opnd` into pixel slot `slot`; the index is
\* read again for every channel, as in the code
MapStore(m, cd, cc, ch, slot, opnd, g) ==
    LET look(mm, c) == MapRead(cd, IndexOf(mm, opnd, g), cc, c, g)
        seen(mm, c) == MapSeen(cd, IndexOf(mm, opnd, g), cc, c)
        m3 == IF ch = 4
              THEN Set(Deref(m, cd, seen(m, 3)), slot * ch + 3, look(m, 3))
              ELSE m
        m2 == Set(Deref(m3, cd, seen(m3, 0)), slot * ch + 2, look(m3, 0))
        m1 == Set(Deref(m2, cd, seen(m2, 1)), slot * ch + 1, look(m2, 1))
    IN  Set(Deref(m1, cd, seen(m1, 2)), slot * ch + 0, look(m1, 2))

\* the same with the index held in the pixel buffer at m.d[src]
MapLookup(m, cd, cc, ch, slot, src, g) ==
    MapStore(Touch(m, InBuf(m.d, src)), cd, cc, ch, slot, InData(src), g)

\* 5-bit field of a packed pixel, as an 8-bit channel
Chan5(pixel, shift) == ((pixel \div shift) % 32) * 8
\* data += data >> 5 (the RLE branch only)
Refine(v) == byte(v + (v \div 32))

\* a 16-bit pixel is kept as its two bytes [lo, hi], either of which may
\* be indeterminate
Pixel16(lo, hi) == [lo |-> lo, hi |-> hi]
Known(b) == IF b = Indeterminate THEN 0 ELSE b

\* unpack the 16-bit pixel into pixel slot `slot`: red and alpha come from
\* the high byte, blue from the low byte, green from both
Unpack16(m, ch, slot, pixel, refine) ==
    LET w == Word16(Known(pixel.lo), Known(pixel.hi))
        val(shift, known) ==
            IF ~known THEN Indeterminate
            ELSE IF refine THEN Refine(Chan5(w, shift)) ELSE Chan5(w, shift)
        lo_known == pixel.lo # Indeterminate
        hi_known == pixel.hi # Indeterminate
        mr == Set(m, slot * ch + 0, val(1024, hi_known))
        mg == Set(mr, slot * ch + 1, val(32, lo_known /\ hi_known))
        mb == Set(mg, slot * ch + 2, val(1, lo_known))
    IN  IF ch = 4
        THEN Set(mb, slot * ch + 3,
                 IF ~hi_known THEN Indeterminate
                 ELSE IF (w \div 32768) % 2 = 1 THEN 255 ELSE 0)
        ELSE mb

\* the 16-bit pixel held in the pixel buffer at m.d[src], m.d[src + 1]
PixelAt(m, src, g) == Pixel16(Rd(m.d, src, g), Rd(m.d, src + 1, g))

\* the 16-bit pixel an operand stands for, given the buffer as it is now
PixelOf(m, opnd, g) == IF opnd.inmem THEN PixelAt(m, opnd.v, g) ELSE opnd.v

\* bw2rgb(pixel, &m.d[dst], channels) with *pixel = opnd, read again for
\* every store
bw2rgb(m, opnd, dst, g) ==
    LET m3 == Set(m, dst + 3, PixelOf(m, opnd, g).hi)
        m2 == Set(m3, dst + 2, PixelOf(m3, opnd, g).lo)
        m1 == Set(m2, dst + 1, PixelOf(m2, opnd, g).lo)
    IN  Set(m1, dst + 0, PixelOf(m1, opnd, g).lo)

\* bw2rgb((word *)&m.d[src], &m.d[dst], channels)
bw2rgbAt(m, src, dst, g) ==
    bw2rgb(Touch(m, InBuf(m.d, src) /\ InBuf(m.d, src + 1)), InData(src), dst, g)

\* swap_byte(&m.d[a], &m.d[b])
swap_byte(m, a, b, g) ==
    LET va == Rd(m.d, a, g)
        vb == Rd(m.d, b, g)
    IN  Set(Set(Touch(m, InBuf(m.d, a) /\ InBuf(m.d, b)), a, vb), b, va)

----------------------------------------------------------------------------
(* The conversion loops of load_tga2 and of the flips.  A loop is a record *)
(* lp: lp.op names the loop body, the other fields are the variables the   *)
(* body uses.                                                              *)

\* the local variable a run packet's value is read into, before the read
RunLocal(branch, g) ==
    CASE branch = "mapped_rle" -> <<0>>          \* byte pixel = 0;
      [] branch = "rgb_rle" -> <<g, g, g, g>>    \* byte colors[4];
      [] branch = "rgb16_rle" -> <<0, 0>>        \* word pixel = 0;
      [] branch = "bw_rle" -> <<g, g>>           \* word pixel;

\* the body of "while (rle_id)" of a run packet, for pixel slot `slot`
RunStore(branch, m, cd, cc, ch, bits, slot, loc, g) ==
    CASE branch = "mapped_rle" ->
             MapStore(m, cd, cc, ch, slot, Local(loc[1]), g)
      [] branch = "rgb_rle" ->
             LET m0 == Set(m, slot * ch + 0, loc[3])
                 m1 == Set(m0, slot * ch + 1, loc[2])
                 m2 == Set(m1, slot * ch + 2, loc[1])
             IN  IF bits = 32 THEN Set(m2, slot * ch + 3, loc[4]) ELSE m2
      [] branch = "rgb16_rle" ->
             Unpack16(m, ch, slot, Pixel16(loc[1], loc[2]), TRUE)
      [] branch = "bw_rle" ->
             bw2rgb(m, Local(Pixel16(loc[1], loc[2])), slot * ch, g)

\* a faulty variant of FlipHBody whose mirror column is off by one
FlipHBodyMut(img, n, m, g) ==
    LET per == (img.width \div 2) * img.channels
        ii == n \div per
        jj == (n % per) \div img.channels
        kk == n % img.channels
    IN  swap_byte(m, ((ii * img.width) + jj) * img.channels + kk,
                  ((ii * img.width) + (img.width - jj)) * img.channels + kk, g)

\* the body of flip_tga_horizontally's loops, the n-th pass over (i, j, k)
FlipHBody(img, n, m, g) ==
    LET per == (img.width \div 2) * img.channels
        ii == n \div per
        jj == (n % per) \div img.channels
        kk == n % img.channels
    IN  swap_byte(m, ((ii * img.width) + jj) * img.channels + kk,
                  ((ii * img.width) + (img.width - jj - 1)) * img.channels + kk, g)

\* a faulty variant of FlipVBody whose mirror row is off by one
FlipVBodyMut(img, n, m, g) ==
    LET half == img.height \div 2
        ii == n \div half
        jj == n % half
    IN  swap_byte(m, ii + img.width * img.channels * jj,
                  ii + img.width * img.channels * (img.height - jj), g)

\* the body of flip_tga_vertically's loops, the n-th pass over (i, j)
FlipVBody(img, n, m, g) ==
    LET half == img.height \div 2
        ii == n \div half
        jj == n % half
    IN  swap_byte(m, ii + img.width * img.channels * jj,
                  ii + img.width * img.channels * (img.height - jj - 1), g)

RECURSIVE Loop(_, _, _, _)

\* pass k (0, 1, ...) of the loop lp over buffer m.  The expanding loops
\* ("mapped", "rgb16", "bw") walk the lp.count pixels from the last to the
\* first: pixel slot lp.i0 + back, stored bytes at lp.src0 + back * size.
\* A pass of an outer loop ("rgb_rows", "flip_h_rows", "flip_v_columns") is
\* the inner loop, whose passes lp.base numbers on.
LoopBody(lp, k, m) ==
    LET back == lp.count - 1 - k
    IN  CASE lp.op = "mapped" ->
                 MapLookup(m, lp.cd, lp.cc, lp.ch, lp.i0 + back, lp.src0 + back, lp.g)
          [] lp.op = "rgb16" ->
                 LET src == lp.src0 + back * 2
                 IN  Unpack16(Touch(m, InBuf(m.d, src) /\ InBuf(m.d, src + 1)), lp.ch,
                              lp.i0 + back, PixelAt(m, src, lp.g), lp.refine)
          [] lp.op = "bw" ->
                 bw2rgbAt(m, lp.src0 + back * 2, (lp.i0 + back) * lp.ch, lp.g)
          [] lp.op = "rgb" ->
                 swap_byte(m, (lp.i0 + k) * lp.ch, (lp.i0 + k) * lp.ch + 2, lp.g)
          [] lp.op = "run" ->
                 RunStore(lp.branch, m, lp.cd, lp.cc, lp.ch, lp.bits, lp.i0 + k,
                          lp.loc, lp.g)
          [] lp.op = "rgb_rows" ->
                 \* byte *pLine = &(ptga->data[width * channels * y]);
                 \* for (int i = 0; i < width * channels; i += channels):
                 \* `width` passes, channels being 3 or 4 in this branch
                 Loop([lp EXCEPT !.op = "rgb_row",
                                 !.base = IntTimes(lp.width * lp.ch, k)],
                      0, lp.width, m)
          [] lp.op = "rgb_row" ->
                 swap_byte(m, lp.base + k * lp.ch, lp.base + k * lp.ch + 2, lp.g)
          [] lp.op = "flip_h_rows" ->
                 Loop([lp EXCEPT !.op = "flip_h", !.base = k * lp.count],
                      0, lp.count, m)
          [] lp.op = "flip_h" -> FlipHBody(lp.img, lp.base + k, m, lp.g)
          [] lp.op = "flip_v_columns" ->
                 Loop([lp EXCEPT !.op = "flip_v", !.base = k * lp.count],
                      0, lp.count, m)
          [] lp.op = "flip_v" -> FlipVBody(lp.img, lp.base + k, m, lp.g)

\* the passes lo .. hi-1 of the loop lp in rising order; a pass that faults
\* is the last.  The range is split in halves, left half first; the test on
\* `left` is always false and only makes the left half be evaluated before
\* the right half starts.
Loop(lp, lo, hi, m) ==
    IF hi <= lo \/ m.fault THEN m
    ELSE IF hi = lo + 1 THEN LoopBody(lp, lo, m)
    ELSE LET mid == (lo + hi) \div 2
             left == Loop(lp, lo, mid, m)
         IN  IF DOMAIN left = {} THEN left ELSE Loop(lp, mid, hi, left)

\* the rounds of an outer loop that change anything: none of the `outer`
\* rounds does when the inner loop has no pass
Rounds(outer, inner) == IF inner <= 0 THEN 0 ELSE outer

\* the conversion loop of a branch over `count` pixels: pixel slots from i0,
\* stored bytes from offset src0 of the buffer
Expand(branch, h, cd, g, i0, src0, count) ==
    [op |-> CASE branch \in {"mapped", "mapped_rle"} -> "mapped"
              [] branch \in {"rgb", "rgb_rle"} -> "rgb"
              [] branch \in {"rgb16", "rgb16_rle"} -> "rgb16"
              [] branch \in {"bw", "bw_rle"} -> "bw",
     cd |-> cd, cc |-> ColorChannels(h), ch |-> Channels(h), g |-> g,
     i0 |-> i0, src0 |-> src0, count |-> count,
     refine |-> (branch = "rgb16_rle")]

----------------------------------------------------------------------------
(* The uncompressed branches of load_tga2: malloc, one read_file, and the  *)
(* conversion loop over the buffer itself.  The result is the buffer and   *)
(* the number of bytes read.                                               *)

NewBuffer(n, g) == [live |-> TRUE, d |-> Malloc(n, g), ub |-> FALSE, fault |-> FALSE]
\* ptga->data == NULL
NoBuffer == [live |-> FALSE, d |-> <<>>, ub |-> FALSE, fault |-> FALSE]

\* width * height, or width * height * channels, does not fit an int: the
\* behaviour is undefined; the builds keep the low 32 bits of the product
Overflows(h) ==
    \/ TimesOverflows(H_width(h), H_height(h))
    \/ /\ ~TimesOverflows(H_width(h), H_height(h))
       /\ TimesOverflows(H_width(h) * H_height(h), Channels(h))

\* the int width * height
PixelCount(h) == IntTimes(H_width(h), H_height(h))
\* the int width * height * channels
ByteCount(h) == IntTimes(PixelCount(h), Channels(h))

\* malloc(width * height * channels): the int becomes a size_t, and no heap
\* holds what a negative int becomes: malloc gives NULL
Alloc(h, g) ==
    [(IF ByteCount(h) < 0 THEN NoBuffer ELSE NewBuffer(ByteCount(h), g))
        EXCEPT !.ub = Overflows(h)]

\* The read asks for width * height items of 1 byte ("mapped") or of 2
\* bytes ("rgb16", and "bw", which asks for twice as many bytes), or for
\* width * height * channels bytes ("rgb").  A read into a NULL buffer
\* either copies bytes the stream holds already (copied) or hands the
\* address to the system, which refuses it: the call then reads nothing
\* and the position stays.  The loop of "rgb" walks the rows and the pixels
\* of a row; the other loops walk width * height pixels and do not run when
\* that int is negative.
DecodeRaw(branch, h, stream, at, cd, g, copied) ==
    LET n == PixelCount(h)
        ch == Channels(h)
        size == IF branch \in {"rgb16", "bw"} THEN 2 ELSE 1
        count == IF branch = "rgb" THEN ByteCount(h) ELSE n
        buf == Alloc(h, g)
        got == IF buf.live \/ copied THEN Fetch(stream, at, size, count) ELSE <<>>
        m0 == Store(buf, 0, got)
        rows == [op |-> "rgb_rows", ch |-> ch, g |-> g, width |-> H_width(h),
                 base |-> 0]
    IN  [m |-> IF branch = "rgb"
               THEN Loop(rows, 0, Rounds(H_height(h), H_width(h)), m0)
               ELSE Loop(Expand(branch, h, cd, g, 0, 0, n), 0, n, m0),
         read |-> Len(got),
         short |-> Missed(stream, size, count, got)]

----------------------------------------------------------------------------
(* One packet of the RLE branches of load_tga2.  st = [m, i, rle_id, pos]; *)
(* the result has these fields and `short`, the number of short reads;    *)
(* a read_file that gets nothing leaves its destination as it was.         *)

\* the bytes `got` over the first bytes of the local variable `init`
Over(init, got) == [k \in 1..Len(init) |-> IF k <= Len(got) THEN got[k] ELSE init[k]]

PayloadSize(branch, ch) ==
    CASE branch = "mapped_rle" -> 1
      [] branch = "rgb_rle" -> ch
      [] branch \in {"rgb16_rle", "bw_rle"} -> 2

\* rle_id -= 127 on a byte
RunCount(id) == byte(id + 256 - 127)
\* rle_id++ on a byte
RawCount(id) == byte(id + 1)

RlePacket(branch, h, stream, cd, g, st) ==
    LET ch == Channels(h)
        got1 == Avail(stream, st.pos, 1)
        id == IF Len(got1) = 1 THEN got1[1] ELSE st.rle_id
        pos1 == st.pos + Len(got1)
    IN  IF Bit80(id)
        THEN \* run-length packet: while (rle_id) { store; i++; rle_id--; }
             LET count == RunCount(id)
                 got2 == Avail(stream, pos1, PayloadSize(branch, ch))
                 run == [op |-> "run", branch |-> branch, cd |-> cd,
                         cc |-> ColorChannels(h), ch |-> ch,
                         bits |-> H_bits_per_pixel(h), i0 |-> st.i,
                         loc |-> Over(RunLocal(branch, g), got2), g |-> g,
                         count |-> count]
             IN  [m |-> Loop(run, 0, count, st.m),
                  i |-> st.i + count,
                  rle_id |-> 0,
                  pos |-> pos1 + Len(got2),
                  short |-> Short(1, got1) + Short(PayloadSize(branch, ch), got2)]
        ELSE \* raw packet: read_file into the buffer, then the conversion loop
             LET count == RawCount(id)
                 got2 == Avail(stream, pos1, count * PayloadSize(branch, ch))
                 m0 == Store(st.m, st.i * ch, got2)
             IN  [m |-> Loop(Expand(branch, h, cd, g, st.i, st.i * ch, count),
                             0, count, m0),
                  i |-> st.i + count,
                  rle_id |-> IF branch = "rgb_rle" THEN 0 ELSE count,
                  pos |-> pos1 + Len(got2),
                  short |-> Short(1, got1)
                            + Short(count * PayloadSize(branch, ch), got2)]

----------------------------------------------------------------------------
(* The orientation flips.                                                  *)

\* the three nested loops of flip_tga_horizontally, run over buffer m: the
\* rows i, and in a row the (width / 2) * channels passes over (j, k)
flip_tga_horizontally(img, m, g) ==
    Loop([op |-> "flip_h_rows", img |-> img, g |-> g, base |-> 0,
          count |-> (img.width \div 2) * img.channels],
         0, Rounds(img.height, (img.width \div 2) * img.channels), m)

\* the two nested loops of flip_tga_vertically, run over buffer m: the byte
\* columns i, and in a column the height / 2 passes over j
flip_tga_vertically(img, m, g) ==
    Loop([op |-> "flip_v_columns", img |-> img, g |-> g, base |-> 0,
          count |-> img.height \div 2],
         0, Rounds(img.width * img.channels, img.height \div 2), m)

----------------------------------------------------------------------------
(* The files load_tga2 is called on without write_tga having made them.    *)

\* image-type codes: the seven of tga.c and others
CraftedTypes == {0, 1, 2, 3, 4, 9, 10, 11, 12}
CraftedBits == {8, 15, 16, 24, 32}
CraftedWidth == 2

\* byte k of the pixel area
Pattern(pat, k) == IF pat = "low" THEN k % 2 ELSE byte((k * 37) + 129)

MakeFile(idl, cmt, it, bits, xo, yo, w, h, pat) ==
    << idl, cmt, it, 0, 0, (IF cmt # 0 THEN 2 ELSE 0), 0, (IF cmt # 0 THEN 24 ELSE 0),
       xo, 0, yo, 0, w, 0, h, 0, bits, 0 >>
    \o [k \in 1..idl |-> 238]
    \o (IF cmt # 0 THEN <<1, 2, 3, 4, 5, 6>> ELSE <<>>)
    \o [k \in 1..(w * h * 5) |-> Pattern(pat, k - 1)]

CraftedFiles ==
    {MakeFile(idl, cmt, it, bits, xo, yo, CraftedWidth, h, pat) :
        idl \in {0, 1}, cmt \in {0, 1}, it \in CraftedTypes, bits \in CraftedBits,
        xo \in {0, 1}, yo \in {0, 1}, h \in 1..MaxHeight, pat \in {"low", "mixed"}}

\* a file that ends after the first byte of its pixel area
Truncate(idl, cmt, f) == SubSeq(f, 1, 18 + idl + (IF cmt # 0 THEN 6 ELSE 0) + 1)

TruncatedFiles ==
    {Truncate(idl, cmt, MakeFile(idl, cmt, it, bits, 0, 0, CraftedWidth, 1, pat)) :
        idl \in {0, 1}, cmt \in {0, 1}, it \in CraftedTypes, bits \in CraftedBits,
        pat \in {"low", "mixed"}}

\* a colour-mapped file whose colour map has two entries of esize bits each
MakeMapFile(esize, it, w, h, pat) ==
    << 0, 1, it, 0, 0, 2, 0, esize, 0, 0, 0, 0, w, 0, h, 0, 8, 0 >>
    \o [k \in 1..(2 * (esize \div 8)) |-> k]
    \o [k \in 1..(w * h * 2) |-> Pattern(pat, k - 1)]

MapEntrySizes == {16, 32, 40}

MappedFiles ==
    {MakeMapFile(esize, it, CraftedWidth, h, pat) :
        esize \in MapEntrySizes, it \in {TGA_TYPE_MAPPED, TGA_TYPE_MAPPED_RLE},
        h \in 1..MaxHeight, pat \in {"low", "mixed"}}

\* a file that ends inside its header, after the low byte of the height: a
\* header of width 0 cut to 15 bytes
CutFiles ==
    {SubSeq(MakeFile(0, 0, it, 24, xo, 0, 0, 0, "low"), 1, 15) :
        it \in {TGA_TYPE_RGB, TGA_TYPE_RGB_RLE}, xo \in {0, 1}}

\* a header without colour map, with both origins o
HugeHeader(it, bits, o, w, h) ==
    << 0, 0, it, 0, 0, 0, 0, 0, o, 0, o, 0, Lo(w), Hi(w), Lo(h), Hi(h), bits, 0 >>

\* the pixel areas of these files: none, 4 bytes, 12 bytes
HugeTails == {<<>>, <<0, 1, 2, 3>>, <<0, 1, 2, 3, 4, 5, 6, 7, 8, 9, 10, 11>>}

\* files whose width * height, or width * height * channels, does not fit
\* an int: 65535 x 65535 (the low 32 bits of both products are negative;
\* without a colour map a colour-mapped image has 0 channels), 32768 x 32768
\* (only the byte count is), 33025 x 65026 of 4 channels (a byte count of
\* 2^33 + 8, whose low 32 bits are 8) and 65535 x 32769 of 4 channels (a
\* byte count of 2^33 + 131068); the last ones are 65535 x 65535 pixels of
\* a one-entry 16-bit colour map (2 channels)
HugeFiles ==
    {HugeHeader(it, 24, o, 65535, 65535) \o tail :
        it \in {TGA_TYPE_RGB, TGA_TYPE_RGB_RLE}, o \in {0, 1}, tail \in HugeTails}
    \cup {HugeHeader(it, 8, o, 65535, 65535) \o tail :
        it \in {TGA_TYPE_MAPPED, TGA_TYPE_MAPPED_RLE}, o \in {0, 1},
        tail \in HugeTails}
    \cup {HugeHeader(TGA_TYPE_RGB_RLE, 24, o, 32768, 32768) \o tail :
        o \in {0, 1}, tail \in HugeTails}
    \cup {HugeHeader(it, 16, 0, 33025, 65026) \o tail :
        it \in {TGA_TYPE_RGB, TGA_TYPE_BW, TGA_TYPE_RGB_RLE, TGA_TYPE_BW_RLE},
        tail \in HugeTails}
    \cup {HugeHeader(TGA_TYPE_RGB, 16, 0, 65535, 32769) \o <<0, 1, 2, 3>>}
    \cup {HugeHeader(it, 16, o, 65535, 65535) \o tail :
        it \in {TGA_TYPE_RGB, TGA_TYPE_BW}, o \in {0, 1}, tail \in HugeTails}
    \cup {<<0, 1, TGA_TYPE_MAPPED, 0, 0, 1, 0, 16, 0, 0, 0, 0,
            255, 255, 255, 255, 8, 0>> \o <<7, 7>> \o tail : tail \in HugeTails}

----------------------------------------------------------------------------
(* load_tga2, step by step.                                                *)

\* the caller's tga_image before the call
Prior == [width |-> 7, height |-> 7, channels |-> 7, data |-> <<7>>]
NoMap == [live |-> FALSE, d |-> <<>>]

LInit ==
    /\ lpc = "idle"
    /\ lret = "none"
    /\ lfile = "none"
    /\ lcloses = 0
    /\ pos = 0
    /\ reads = 0
    /\ shorts = 0
    /\ seeks = 0
    /\ header = <<>>
    /\ loaded = Prior
    /\ mem = NoBuffer
    /\ cmap = NoMap
    /\ li = 0
    /\ rle_id = 0

\* no flip call is under way
NoFlip ==
    /\ forig = [width |-> 0, height |-> 0, channels |-> 3, data |-> <<>>]
    /\ fimg = forig
    /\ fub = FALSE
    /\ fops = <<>>

\* a call of write_tga, to be followed by load_tga2 of its file
SaveInit ==
    /\ \E call \in SaveCalls : ptga = call[1] /\ type = call[2]
    /\ wpc = "open"
    /\ disk = [exists |-> FALSE, bytes |-> <<>>]

\* a call of load_tga2 on a file that is there already
LoadInit ==
    /\ ptga = [width |-> 0, height |-> 0, channels |-> 3, data |-> <<>>]
    /\ type = "none"
    /\ wpc = "none"
    /\ \E f \in CraftedFiles \cup TruncatedFiles \cup MappedFiles
                  \cup CutFiles \cup HugeFiles : disk = [exists |-> TRUE, bytes |-> f]

Init ==
    /\ SaveInit \/ LoadInit
    /\ wret = "none"
    /\ wfile = "none"
    /\ wcloses = 0
    /\ colors = 0
    /\ palette_data = <<>>
    /\ color_data = <<>>
    /\ i = 0 /\ j = 0 /\ duplicates = 0 /\ different = 0
    /\ packets = NoPacket
    /\ LInit
    /\ NoFlip

\* void *file = open_file(filename, "rb"); if (!file) return false;
load_tga2_open ==
    /\ lpc = "idle"
    /\ wpc = "none" \/ (wpc = "returned" /\ wret = TRUE)
    /\ header' = Malloc(18, Indeterminate)
    /\ IF disk.exists
       THEN lfile' = "open" /\ lpc' = "header" /\ lret' = lret
       ELSE lfile' = lfile /\ lpc' = "returned" /\ lret' = FALSE
    /\ UNCHANGED <<lcloses, pos, reads, shorts, seeks, loaded, mem, cmap, li, rle_id>>
    /\ UNCHANGED wvars

\* a faulty variant of NoImage that never rejects the header
NoImageMut(h) == FALSE

\* image_type == TGA_TYPE_NO_IMAGE
NoImage(h) == H_image_type(h) = TGA_TYPE_NO_IMAGE

\* the values a byte may turn out to be when the code looks at it
Resolved(b) == IF b = Indeterminate THEN 0..255 ELSE {b}
\* header[k] = v
WithByte(h, k, v) == [h EXCEPT ![k + 1] = v]

\* where the step to `normal` ends: the process is killed when the step
\* faulted and may be killed once the behaviour is undefined
Outcomes(m, normal) ==
    IF m.fault THEN {"crashed"}
    ELSE IF m.ub THEN {normal, "crashed"}
    ELSE {normal}

\* read_file(&header, sizeof(header), 1, file);
\* if (image_type == TGA_TYPE_NO_IMAGE) return false;
load_tga2_header ==
    /\ lpc = "header"
    /\ \E image_type \in Resolved(H_image_type(Over(header, Avail(disk.bytes, pos, 18)))) :
       LET got == Avail(disk.bytes, pos, 18)
           h == WithByte(Over(header, got), 2, image_type)
       IN  /\ header' = h
           /\ pos' = pos + Len(got)
           /\ reads' = reads + 1
           /\ shorts' = shorts + Short(18, got)
           /\ IF NoImage(h)
              THEN lpc' = "returned" /\ lret' = FALSE
              ELSE lpc' = "setup" /\ lret' = lret
    /\ UNCHANGED <<lfile, lcloses, seeks, loaded, mem, cmap, li, rle_id>>
    /\ UNCHANGED wvars

\* the header with the colour-map bytes 5, 6, 7 as the code finds them; it
\* reads them only when color_map_type is not 0
MapBytes(h) ==
    IF H_color_map_type(h) = 0 THEN {h}
    ELSE {WithByte(WithByte(WithByte(h, 5, a), 6, b), 7, c) :
            a \in Resolved(At(h, 5)), b \in Resolved(At(h, 6)),
            c \in Resolved(At(h, 7))}

\* the header with id_length, color_map_type and the colour-map bytes as the
\* code finds them
SetupHeaders ==
    UNION {MapBytes(WithByte(WithByte(header, 0, a), 1, b)) :
             a \in Resolved(At(header, 0)), b \in Resolved(At(header, 1))}

\* the seek over the image ID field and the read of the colour map
load_tga2_setup ==
    /\ lpc = "setup"
    /\ \E h \in SetupHeaders :
       LET skip == H_id_length(h) # 0
           pos1 == IF skip THEN pos + H_id_length(h) ELSE pos
           want == H_color_map_length(h) * ColorChannels(h)
           got == Avail(disk.bytes, pos1, want)
       IN  /\ header' = h
           /\ seeks' = IF skip THEN seeks + 1 ELSE seeks
           /\ IF H_color_map_type(h) # 0
              THEN /\ cmap' = [live |-> TRUE, d |-> Over(Malloc(want, Indeterminate), got)]
                   /\ reads' = reads + 1
                   /\ shorts' = shorts + Short(want, got)
                   /\ pos' = pos1 + Len(got)
              ELSE /\ cmap' = cmap
                   /\ reads' = reads
                   /\ shorts' = shorts
                   /\ pos' = pos1
    /\ lpc' = "decode"
    /\ UNCHANGED <<lret, lfile, lcloses, loaded, mem, li, rle_id>>
    /\ UNCHANGED wvars

BranchOf(h) == Branch(H_image_type(h), H_bits_per_pixel(h))
TheBranch == BranchOf(header)
\* the header with bits_per_pixel as the branch tests find it
SeenHeaders == {WithByte(header, 16, b) : b \in Resolved(H_bits_per_pixel(header))}
RawBranches == {"mapped", "rgb", "rgb16", "bw"}
RleBranches == {"mapped_rle", "rgb_rle", "rgb16_rle", "bw_rle"}

\* if (!success) { free(color_data); return false; }
load_tga2_unsupported ==
    /\ lpc = "decode"
    /\ \E h \in SeenHeaders : BranchOf(h) = "none"
    /\ cmap' = NoMap
    /\ lret' = FALSE
    /\ lpc' = "returned"
    /\ UNCHANGED <<lfile, lcloses, pos, reads, shorts, seeks, header, loaded, mem, li,
                   rle_id>>
    /\ UNCHANGED wvars

\* the header h with the width and height bytes as the code finds them
Sized(h) ==
    {WithByte(WithByte(WithByte(WithByte(h, 12, a), 13, b), 14, c), 15, d) :
        a \in Resolved(At(h, 12)), b \in Resolved(At(h, 13)),
        c \in Resolved(At(h, 14)), d \in Resolved(At(h, 15))}

\* the headers a branch that decodes pixels works with
DecodeHeaders ==
    UNION {Sized(h) : h \in {s \in SeenHeaders : BranchOf(s) # "none"}}

\* an uncompressed branch
load_tga2_pixels ==
    /\ lpc = "decode"
    /\ \E h \in DecodeHeaders :
       /\ BranchOf(h) \in RawBranches
       /\ header' = h
       /\ \E copied \in (IF ByteCount(h) < 0 THEN BOOLEAN ELSE {TRUE}) :
          LET r == DecodeRaw(BranchOf(h), h, disk.bytes, pos, cmap, Indeterminate,
                             copied)
          IN  /\ mem' = r.m
              /\ loaded' = [loaded EXCEPT !.data = r.m.d]
              /\ pos' = pos + r.read
              /\ shorts' = shorts + r.short
              /\ lpc' \in Outcomes(r.m, "finish")
    /\ reads' = reads + 1
    /\ UNCHANGED <<lret, lfile, lcloses, seeks, cmap, li, rle_id>>
    /\ UNCHANGED wvars

\* where the first test "i < width * height" of an RLE loop, i being 0,
\* leads.  When the product does not fit an int the behaviour is undefined:
\* a build tests the low 32 bits of the product, which are negative, or
\* takes the product of two widths as positive and enters the loop.
EntryTargets(h) ==
    IF 0 < PixelCount(h) THEN {"rle"}
    ELSE IF TimesOverflows(H_width(h), H_height(h)) THEN {"rle", "finish"}
    ELSE {"finish"}

\* entering an RLE branch: byte rle_id = 0; malloc; for (int i = 0; ...
load_tga2_rle_begin ==
    /\ lpc = "decode"
    /\ \E h \in DecodeHeaders :
       /\ BranchOf(h) \in RleBranches
       /\ header' = h
       /\ LET m == Alloc(h, Indeterminate)
          IN  /\ mem' = m
              /\ loaded' = [loaded EXCEPT !.data = m.d]
              /\ lpc' \in UNION {Outcomes(m, t) : t \in EntryTargets(h)}
    /\ rle_id' = 0
    /\ li' = 0
    /\ UNCHANGED <<lret, lfile, lcloses, pos, reads, shorts, seeks, cmap>>
    /\ UNCHANGED wvars

\* one packet, then the loop test i < width * height
load_tga2_rle_packet ==
    /\ lpc = "rle"
    /\ LET r == RlePacket(TheBranch, header, disk.bytes, cmap, Indeterminate,
                          [m |-> mem, i |-> li, rle_id |-> rle_id, pos |-> pos])
       IN  /\ mem' = r.m
           /\ loaded' = [loaded EXCEPT !.data = r.m.d]
           /\ li' = r.i
           /\ rle_id' = r.rle_id
           /\ pos' = r.pos
           /\ shorts' = shorts + r.short
           /\ lpc' \in Outcomes(r.m, IF r.i < PixelCount(header)
                                       THEN "rle" ELSE "finish")
    /\ reads' = reads + 2
    /\ UNCHANGED <<lret, lfile, lcloses, seeks, header, cmap>>
    /\ UNCHANGED wvars

\* the header with the origin bytes as the code finds them
Origins ==
    {WithByte(WithByte(WithByte(WithByte(header, 8, a), 9, b), 10, c), 11, d) :
        a \in Resolved(At(header, 8)), b \in Resolved(At(header, 9)),
        c \in Resolved(At(header, 10)), d \in Resolved(At(header, 11))}

\* the fields of *ptga, the flips, close_file, free(color_data), return true;
\* a process whose behaviour is undefined by now may be killed instead, and
\* a flip that swaps bytes of a NULL buffer kills it
load_tga2_finish ==
    /\ lpc = "finish"
    /\ \E h \in Origins :
       LET img == [width |-> H_width(h), height |-> H_height(h),
                   channels |-> Channels(h)]
           mx == IF H_x_origin(h) # 0
                 THEN flip_tga_horizontally(img, mem, Indeterminate) ELSE mem
           my == IF H_y_origin(h) # 0
                 THEN flip_tga_vertically(img, mx, Indeterminate) ELSE mx
       IN  /\ header' = h
           /\ mem' = my
           /\ loaded' = [width |-> img.width, height |-> img.height,
                         channels |-> img.channels, data |-> my.d]
           /\ lpc' \in Outcomes(my, "returned")
    /\ IF lpc' = "returned"
       THEN /\ lfile' = "closed"
            /\ lcloses' = lcloses + 1
            /\ cmap' = NoMap
            /\ lret' = TRUE
       ELSE UNCHANGED <<lfile, lcloses, cmap, lret>>
    /\ UNCHANGED <<pos, reads, shorts, seeks, li, rle_id>>
    /\ UNCHANGED wvars

load_tga2 ==
    \/ load_tga2_open
    \/ load_tga2_header
    \/ load_tga2_setup
    \/ load_tga2_unsupported
    \/ load_tga2_pixels
    \/ load_tga2_rle_begin
    \/ load_tga2_rle_packet
    \/ load_tga2_finish

\* free_tga(ptga) on the image load_tga2 gave: if (ptga && ptga->data)
\* free(ptga->data); the fields of *ptga stay as they are, data dangling
free_tga ==
    /\ lpc = "returned"
    /\ lret = TRUE
    /\ mem.live
    /\ mem' = [mem EXCEPT !.live = FALSE]
    /\ lpc' \in Outcomes(mem, "freed")
    /\ UNCHANGED <<lret, lfile, lcloses, pos, reads, shorts, seeks, header, loaded,
                   cmap, li, rle_id>>
    /\ UNCHANGED wvars

Next == write_tga \/ load_tga2 \/ free_tga

Spec == Init /\ [][Next]_vars

----------------------------------------------------------------------------
(* Calls of flip_tga_horizontally and flip_tga_vertically on an image the  *)
(* caller holds, one after the other.                                      *)

MaxSide == 3        \* the images flipped are 0..MaxSide pixels wide and high
MaxFlips == 2       \* flips applied to one image

\* an image whose bytes all differ
FlipImages ==
    {[width |-> w, height |-> h, channels |-> ch,
      data |-> [k \in 1..(w * h * ch) |-> k % 256]] :
        w \in 0..MaxSide, h \in 0..MaxSide, ch \in {3, 4}}

FlipInit ==
    /\ ptga = [width |-> 0, height |-> 0, channels |-> 3, data |-> <<>>]
    /\ type = "none"
    /\ wpc = "none"
    /\ disk = [exists |-> FALSE, bytes |-> <<>>]
    /\ wret = "none"
    /\ wfile = "none"
    /\ wcloses = 0
    /\ colors = 0
    /\ palette_data = <<>>
    /\ color_data = <<>>
    /\ i = 0 /\ j = 0 /\ duplicates = 0 /\ different = 0
    /\ packets = NoPacket
    /\ LInit
    /\ forig \in FlipImages
    /\ fimg = forig
    /\ fub = FALSE
    /\ fops = <<>>

\* the buffer of fimg as the flips see it
FlipBuffer == [live |-> TRUE, d |-> fimg.data, ub |-> fub, fault |-> FALSE]

\* flip_tga_horizontally(&fimg)
call_flip_tga_horizontally ==
    /\ Len(fops) < MaxFlips
    /\ LET m == flip_tga_horizontally(fimg, FlipBuffer, Indeterminate)
       IN  fimg' = [fimg EXCEPT !.data = m.d] /\ fub' = m.ub
    /\ fops' = Append(fops, "h")
    /\ UNCHANGED <<forig, cvars>>

\* flip_tga_vertically(&fimg)
call_flip_tga_vertically ==
    /\ Len(fops) < MaxFlips
    /\ LET m == flip_tga_vertically(fimg, FlipBuffer, Indeterminate)
       IN  fimg' = [fimg EXCEPT !.data = m.d] /\ fub' = m.ub
    /\ fops' = Append(fops, "v")
    /\ UNCHANGED <<forig, cvars>>

FlipNext == call_flip_tga_horizontally \/ call_flip_tga_vertically

FlipSpec == FlipInit /\ [][FlipNext]_vars

----------------------------------------------------------------------------
(* Properties.                                                             *)

\* load_tga2 has returned the image write_tga was given
SameImage ==
    /\ lret = TRUE
    /\ loaded.width = ptga.width
    /\ loaded.height = ptga.height
    /\ loaded.channels = ptga.channels
    /\ loaded.data = ptga.data

\* load_tga2 has returned from the file write_tga(ptga, t) made
RoundTripDone(t) == lpc = "returned" /\ type = t

\* C1: after write_tga(I, TGA_RGB) has returned success, for an image of any
\* width and height of 16 bits, load_tga2 of the file does not end the
\* process: it returns, with success, and gives the width, height, channels
\* and pixel bytes of I.
C1_RoundTripRGB ==
    ( /\ type = "TGA_RGB"
      /\ wpc = "returned" /\ wret = TRUE
      /\ lpc \in {"returned", "crashed"} )
    => (lpc = "returned" /\ SameImage)

\* C2: after write_tga(I, TGA_RGB_RLE), load_tga2 of the file gives the
\* width, height, channels and pixel bytes of I, for every row width.
C2_RoundTripRGBRLE == RoundTripDone("TGA_RGB_RLE") => SameImage

\* C3: after write_tga(I, TGA_MAPPED) of an image of 1 to 256 colours,
\* load_tga2 of the file gives the width, height, channels and pixel bytes of I.
C3_RoundTripMapped ==
    (RoundTripDone("TGA_MAPPED") /\ colors \in 1..256) => SameImage

\* the bytes write_tga put after the 18 header bytes
Body == SubSeq(disk.bytes, 19, Len(disk.bytes))

\* C4: every run packet an RLE branch of write_tga emits for n equal pixels,
\* n from 2 to 128, has a header byte with bit 0x80 set and low 7 bits n-1;
\* the 2x1 image of two pixels (255,0,0) written as TGA_RGB_RLE gives the one
\* packet 0x81, 0, 0, 255.
C4_RunHeader ==
    /\ \A k \in 1..Len(packets) :
          packets[k].kind = "run" =>
             /\ packets[k].count \in 2..128
             /\ Bit80(packets[k].hdr)
             /\ packets[k].hdr % 128 = packets[k].count - 1
    /\ ( /\ wpc = "returned" /\ wret = TRUE /\ type = "TGA_RGB_RLE"
         /\ ptga = [width |-> 2, height |-> 1, channels |-> 3,
                    data |-> <<255, 0, 0, 255, 0, 0>>] )
       => Body = <<129, 0, 0, 255>>

\* C5: in every state of the RLE encoder loops 0 <= duplicates <= 127 and
\* 0 <= different <= 127, and every packet emitted, run or raw, covers
\* between 1 and 128 pixels.
C5_PacketBound ==
    /\ duplicates \in 0..127
    /\ different \in 0..127
    /\ \A k \in 1..Len(packets) : packets[k].count \in 1..128

C5_Witness ==
    /\ wpc = "rle"
    /\ \E k \in 1..Len(packets) : packets[k].kind = "raw" /\ packets[k].count = 128

\* the state right after the palette loop of write_tga
PaletteBuilt ==
    /\ IsMapped(type)
    /\ \/ wpc = "header"
       \/ wpc = "returned" /\ wret = FALSE /\ wfile = "open"

\* the pixels that show a colour tuple for the first time in row-major order
FirstPixels ==
    {p \in 0..(ptga.width * ptga.height - 1) :
        \A q \in 0..(p - 1) : Px(ptga, q) # Px(ptga, p)}

\* C6: after the palette loop the palette holds the distinct colour tuples of
\* the image in order of first occurrence, each stored as B,G,R[,A], and
\* color_data[p] is the position of the one entry equal to pixel p's full
\* tuple for every pixel whose entry lies among the first 256.
C6_PaletteBuilder ==
    PaletteBuilt =>
       LET ch == ptga.channels
           firsts == FirstPixels
           Rank(q) == Cardinality({r \in firsts : r < q})
           FirstOf(p) == CHOOSE q \in firsts : Px(ptga, q) = Px(ptga, p)
           EntryAt(r) == SubSeq(palette_data, r * ch + 1, r * ch + ch)
           BGRA(t) == IF ch = 4 THEN <<t[3], t[2], t[1], t[4]>>
                      ELSE <<t[3], t[2], t[1]>>
       IN  /\ colors = Cardinality(firsts)
           /\ Len(palette_data) = colors * ch
           /\ \A q \in firsts : EntryAt(Rank(q)) = BGRA(Px(ptga, q))
           /\ \A r1, r2 \in 0..(colors - 1) :
                 r1 # r2 => EntryAt(r1) # EntryAt(r2)
           /\ Len(color_data) = ptga.width * ptga.height
           /\ \A p \in 0..(ptga.width * ptga.height - 1) :
                 Rank(FirstOf(p)) < 256 => At(color_data, p) = Rank(FirstOf(p))
           /\ BuildPalette(ptga) = [colors |-> colors, palette_data |-> palette_data,
                                    color_data |-> color_data]

C6_Witness ==
    /\ PaletteBuilt
    /\ wpc = "header"
    /\ ptga.channels = 4
    /\ colors >= 2
    /\ colors < ptga.width * ptga.height
    /\ \E p, q \in FirstPixels :
          /\ Px(ptga, p) # Px(ptga, q)
          /\ SubSeq(Px(ptga, p), 1, 3) = SubSeq(Px(ptga, q), 1, 3)

\* C7: when write_tga with TGA_MAPPED or TGA_MAPPED_RLE returns for an image
\* of 257 or more distinct colour tuples, it returns failure and no file has
\* been created or truncated at the destination and no byte written to it.
C7_OverflowLeavesNoFile ==
    ( /\ wpc = "returned"
      /\ IsMapped(type)
      /\ Cardinality({Px(ptga, p) : p \in 0..(ptga.width * ptga.height - 1)}) >= 257 )
    => /\ wret = FALSE
       /\ ~disk.exists
       /\ disk.bytes = <<>>

\* load_tga2 has read the header of a file and found image-type byte 0 in it
NoImageFile ==
    /\ lpc \notin {"idle", "header"}
    /\ lfile # "none"
    /\ Len(disk.bytes) >= 18
    /\ H_image_type(header) = 0

\* C8: for a header whose image-type byte is 0, load_tga2 returns failure
\* straight after the header read: no further read, no seek, *ptga unmodified.
C8_NoImageRejected ==
    NoImageFile =>
       /\ lpc = "returned"
       /\ lret = FALSE
       /\ reads = 1
       /\ seeks = 0
       /\ pos = 18
       /\ loaded = Prior

C8_Witness ==
    /\ NoImageFile
    /\ lret = FALSE
    /\ disk.bytes[1] # 0
    /\ disk.bytes[2] # 0
    /\ Len(disk.bytes) > 18

\* the (image type, bits per pixel) pairs load_tga2 has a branch for
DecodedPairs ==
    {<<1, 8>>, <<9, 8>>, <<3, 16>>, <<11, 16>>}
    \cup ({2, 10} \X {15, 16, 24, 32})

\* load_tga2 has returned from a file whose header, as the branch tests found
\* it, names no decoder branch
UnsupportedFile ==
    /\ lpc = "returned"
    /\ lfile # "none"
    /\ Len(disk.bytes) >= 18
    /\ <<H_image_type(header), H_bits_per_pixel(header)>> \notin DecodedPairs

\* C9: for an image type outside 1, 2, 3, 9, 10, 11 and for a (type, bits per
\* pixel) pair without a decoder branch, load_tga2 returns failure, leaves
\* width, height, channels and data of *ptga as they were, and leaves no
\* pixel buffer allocated.
C9_UnsupportedRejected ==
    UnsupportedFile =>
       /\ lret = FALSE
       /\ loaded = Prior
       /\ ~mem.live

C9_Witness ==
    /\ UnsupportedFile
    /\ lret = FALSE
    /\ disk.bytes[3] = 2
    /\ disk.bytes[17] = 8
    /\ disk.bytes[2] # 0

\* C10: for a header with image type 3 and 8 bits per pixel load_tga2
\* succeeds and gives a 3-channel image whose R, G and B of each pixel equal
\* the stored luminance byte of that pixel.
C10_Grey8Decoded ==
    ( /\ lpc = "returned"
      /\ lfile # "none"
      /\ Len(disk.bytes) >= 18
      /\ disk.bytes[3] = 3
      /\ disk.bytes[17] = 8 )
    => /\ lret = TRUE
       /\ loaded.channels = 3
       /\ loaded.width = Word16(disk.bytes[13], disk.bytes[14])
       /\ loaded.height = Word16(disk.bytes[15], disk.bytes[16])
       /\ ( /\ disk.bytes[1] = 0 /\ disk.bytes[2] = 0
            /\ Word16(disk.bytes[9], disk.bytes[10]) = 0
            /\ Word16(disk.bytes[11], disk.bytes[12]) = 0 )
          => \A p \in 0..(loaded.width * loaded.height - 1) :
                SubSeq(loaded.data, 3 * p + 1, 3 * p + 3)
                   = <<disk.bytes[19 + p], disk.bytes[19 + p], disk.bytes[19 + p]>>

\* C11: whenever a read_file call of load_tga2 (header, colour map, pixel
\* block, RLE packet header or payload) gives fewer items than asked for,
\* load_tga2 returns failure.
C11_ShortReadFails ==
    (lpc = "returned" /\ shorts > 0) => lret = FALSE

\* the buffer d of w x h pixels of ch bytes with the columns mirrored when
\* fx and the rows mirrored when fy
Mirrored(d, w, h, ch, fx, fy) ==
    [k \in 1..Len(d) |->
        LET c == (k - 1) % ch
            x == ((k - 1) \div ch) % w
            y == ((k - 1) \div ch) \div w
            sx == IF fx THEN w - 1 - x ELSE x
            sy == IF fy THEN h - 1 - y ELSE y
        IN  d[(sy * w + sx) * ch + c + 1]]

\* a buffer of len bytes holds exactly h rows of w pixels of ch bytes
ExactPixels(len, w, h, ch) ==
    IF w = 0 \/ ch = 0 THEN len = 0
    ELSE len % (w * ch) = 0 /\ len \div (w * ch) = h

\* C12: the step that ends a decode either returns success, with width,
\* height and channels set from the header and the decoded pixels mirrored
\* horizontally iff the header x-origin is non-zero and vertically iff the
\* y-origin is non-zero, every pixel keeping its channel values, or ends the
\* process, and that only when the behaviour was undefined before the step
\* (a store outside the pixel buffer, a size that does not fit an int).
\* Only after such an overflow is the buffer not one of width * height *
\* channels bytes; it is then returned as decoded when both origins are 0.
C12_Orientation ==
    [][ lpc = "finish" =>
          \/ (lpc' = "crashed" /\ mem.ub)
          \/ ( /\ lpc' = "returned"
               /\ lret' = TRUE
               /\ loaded'.width = H_width(header)
               /\ loaded'.height = H_height(header)
               /\ loaded'.channels = Channels(header)
               /\ IF ExactPixels(Len(mem.d), H_width(header), H_height(header),
                                 Channels(header))
                  THEN loaded'.data =
                          Mirrored(mem.d, H_width(header), H_height(header),
                                   Channels(header), H_x_origin(header') # 0,
                                   H_y_origin(header') # 0)
                  ELSE /\ mem.ub
                       /\ (H_x_origin(header') = 0 /\ H_y_origin(header') = 0)
                          => loaded'.data = mem.d ) ]_vars

C12_Witness ==
    /\ lpc = "returned"
    /\ lret = TRUE
    /\ H_x_origin(header) # 0
    /\ H_y_origin(header) # 0
    /\ loaded.height = 2
    /\ loaded.channels = 3
    /\ Mirrored(loaded.data, 2, 2, 3, TRUE, FALSE) # loaded.data
    /\ Mirrored(loaded.data, 2, 2, 3, FALSE, TRUE) # loaded.data
    /\ ~mem.ub

\* the number of flips of kind op applied so far
Count(op) == Cardinality({k \in 1..Len(fops) : fops[k] = op})

\* C13: flip_tga_horizontally applied twice gives back the pixel buffer byte
\* for byte, and so does flip_tga_vertically; one horizontal (vertical) flip
\* moves the pixel at column x, row y to column width-1-x (row height-1-y);
\* width, height and channels stay as they were and no flip touches memory
\* outside the buffer.
C13_FlipInvolution ==
    /\ fimg.width = forig.width
    /\ fimg.height = forig.height
    /\ fimg.channels = forig.channels
    /\ ~fub
    /\ fops \in {<<"h", "h">>, <<"v", "v">>} => fimg.data = forig.data
    /\ fimg.data = Mirrored(forig.data, forig.width, forig.height, forig.channels,
                            Count("h") % 2 = 1, Count("v") % 2 = 1)

C13_Witness ==
    /\ fops = <<"h", "h">>
    /\ forig.width = 3
    /\ forig.height = 3
    /\ forig.channels = 4
    /\ fimg.data = forig.data

\* every R, G, B of the image is a multiple of 8 and every alpha is 0 or 255
FiveBit(img) ==
    \A p \in 0..(img.width * img.height - 1) :
       /\ \A c \in 1..3 : Px(img, p)[c] % 8 = 0
       /\ img.channels = 4 => Px(img, p)[4] \in {0, 255}

\* C14: for an image whose R, G, B are multiples of 8 and whose alpha values
\* are 0 or 255, load_tga2 of the file written as TGA_RGB16 and of the file
\* written as TGA_RGB16_RLE gives the width, height, channels and pixel bytes
\* of the image; the 1x1 pixel (248,0,0,0) is stored as the word 0x7C00.
C14_RoundTripRGB16 ==
    /\ ( /\ lpc = "returned"
         /\ type \in {"TGA_RGB16", "TGA_RGB16_RLE"}
         /\ FiveBit(ptga) )
       => SameImage
    /\ ( /\ wpc = "returned" /\ wret = TRUE /\ type = "TGA_RGB16"
         /\ ptga = [width |-> 1, height |-> 1, channels |-> 4,
                    data |-> <<248, 0, 0, 0>>] )
       => Body = <<0, 124>>

\* every pixel of the image has R = G = B
Grey(img) ==
    \A p \in 0..(img.width * img.height - 1) :
       Px(img, p)[1] = Px(img, p)[2] /\ Px(img, p)[2] = Px(img, p)[3]

\* C15: write_tga with TGA_BW stores for each pixel the low byte
\* floor((R+G+B)/3) and the high byte alpha (255 for 3 channels); and for a
\* grey image of 3 or of 4 channels load_tga2 of the TGA_BW and of the
\* TGA_BW_RLE file gives the same channel count and the same pixel bytes.
C15_RoundTripBW ==
    /\ (wpc = "returned" /\ wret = TRUE /\ type = "TGA_BW")
       => Body = [k \in 1..(2 * ptga.width * ptga.height) |->
                    LET t == Px(ptga, (k - 1) \div 2)
                    IN  IF k % 2 = 1 THEN (t[1] + t[2] + t[3]) \div 3
                        ELSE IF ptga.channels = 4 THEN t[4] ELSE 255]
    /\ ( /\ lpc = "returned"
         /\ type \in {"TGA_BW", "TGA_BW_RLE"}
         /\ Grey(ptga) )
       => SameImage

\* C16: the 18 header bytes write_tga wrote hold the number of palette
\* entries written, the width and the height as little-endian 16-bit fields
\* at offsets 5, 12 and 14, and the header parse of load_tga2 recovers them.
C16_HeaderLittleEndian ==
    (wpc \in {"pixels", "rle", "close"} \/ (wpc = "returned" /\ wret = TRUE))
    => LET hd == SubSeq(disk.bytes, 1, 18)
           entries == IF IsMapped(type) THEN colors ELSE 0
       IN  /\ Len(disk.bytes) >= 18
           /\ At(hd, 5) + 256 * At(hd, 6) = entries
           /\ At(hd, 12) + 256 * At(hd, 13) = ptga.width
           /\ At(hd, 14) + 256 * At(hd, 15) = ptga.height
           /\ H_color_map_length(hd) = entries
           /\ H_width(hd) = ptga.width
           /\ H_height(hd) = ptga.height

\* C17: on every return of write_tga and of load_tga2 reached after the
\* stream was opened successfully (success, image type 0, unsupported
\* variant, palette overflow), the stream was closed exactly once.
C17_StreamClosed ==
    /\ (wpc = "returned" /\ wfile # "none") => (wfile = "closed" /\ wcloses = 1)
    /\ (lpc = "returned" /\ lfile # "none") => (lfile = "closed" /\ lcloses = 1)

\* C18: whenever load_tga2 returns success, for any colour-map flag and any
\* colour-map entry size, the returned image has 3 or 4 channels, a pixel
\* buffer of exactly width * height * channels bytes, and no decode step
\* touched memory outside that buffer.
C18_CanonicalImage ==
    (lpc = "returned" /\ lret = TRUE)
    => /\ loaded.channels \in {3, 4}
       /\ ~mem.ub
       /\ Len(loaded.data) = loaded.width * loaded.height * loaded.channels

\* the pixel at the encoder's column equals the next pixel of its row
EqualsNext ==
    /\ j + 1 < ptga.width
    /\ SamePixel(ptga, type, color_data, (i * ptga.width) + j, (i * ptga.width) + j + 1)

\* the pass about to run, and the pass after a step
ThisPass == RlePass(ptga, type, color_data, i, j, duplicates, different)
NextPassDuplicates ==
    RlePass(ptga', type', color_data', i', j', duplicates', different').duplicates

\* the raw packet of `count` pixels of row i that ends at column `last`
RawPacketTo(last, count) ==
    [kind |-> "raw", count |-> count, hdr |-> count - 1, row |-> i,
     col |-> last - (count - 1)]

\* the step back of the tie-break: the raw packet ends before the current
\* pixel, the column loop comes back to the same column with both counters
\* 0, and its next pass starts a run there
SteppedBack ==
    /\ packets' = Append(packets, RawPacketTo(j - 1, different))
    /\ wpc' = "rle" /\ i' = i /\ j' = j
    /\ different' = 0 /\ duplicates' = 0
    /\ NextPassDuplicates = 1

\* the counters and the column index stay at or above 0, inside a pass too
NeverNegative ==
    /\ different >= 0 /\ duplicates >= 0 /\ j >= 0
    /\ wpc = "rle" => (ThisPass.j >= 0 /\ ThisPass.different >= 0
                       /\ ThisPass.duplicates >= 0)

\* no raw packet holds two adjacent equal pixels, no run packet has count 1
PacketsWellFormed ==
    \A k \in 1..Len(packets) :
        LET p == packets[k]
            at(c) == (p.row * ptga.width) + c
        IN  /\ p.count >= 1 /\ p.count <= PacketMax
            /\ p.kind = "run" =>
                  /\ p.count >= 2
                  /\ \A c \in p.col..(p.col + p.count - 2) :
                        SamePixel(ptga, type, color_data, at(c), at(c + 1))
            /\ p.kind = "raw" =>
                  \A c \in p.col..(p.col + p.count - 2) :
                        ~SamePixel(ptga, type, color_data, at(c), at(c + 1))

\* C19 as stated: whenever a raw run is being accumulated (different >= 1)
\* and the current pixel equals the next one, the raw packet emitted ends at
\* the pixel before the current one and the two equal pixels begin a run;
\* different and the column index never go below 0; no raw packet holds two
\* adjacent equal pixels and no run packet has count 1.
C19_TieBreakAlways ==
    /\ [](NeverNegative /\ PacketsWellFormed)
    /\ [][(wpc = "rle" /\ different >= 1 /\ EqualsNext) => SteppedBack]_vars

\* C19 amended: the step back happens while the raw run holds fewer than 127
\* pixels (different in 1..126); at different = 127 the raw packet is full,
\* takes the current pixel as its 128th and the column loop moves on; the
\* counters and the column index never go below 0; no raw packet holds two
\* adjacent equal pixels and no run packet has count 1.
C19_TieBreak ==
    /\ [](NeverNegative /\ PacketsWellFormed)
    /\ [][(wpc = "rle" /\ different \in 1..126 /\ EqualsNext) => SteppedBack]_vars
    /\ [][(wpc = "rle" /\ different = 127 /\ EqualsNext)
          => /\ packets' = Append(packets, RawPacketTo(j, 128))
             /\ different' = 0 /\ duplicates' = 0
             /\ j' = j + 1]_vars

\* a raw packet of two pixels that the tie-break ended, followed by the run
\* packet the two equal pixels began
C19_Witness ==
    /\ wpc = "returned" /\ wret = TRUE
    /\ \E k \in 1..(Len(packets) - 1) :
          /\ packets[k].kind = "raw" /\ packets[k].count = 2
          /\ packets[k + 1].kind = "run"
          /\ packets[k + 1].row = packets[k].row
          /\ packets[k + 1].col = packets[k].col + 2

\* the index after the last pixel that packets 1..k cover
CoveredBy(k) ==
    IF k = 0 THEN 0
    ELSE (packets[k].row * ptga.width) + packets[k].col + packets[k].count

\* every packet lies inside one row and begins where the one before it ended
PacketsTileRows ==
    \A k \in 1..Len(packets) :
        /\ packets[k].row \in 0..(ptga.height - 1)
        /\ packets[k].col >= 0
        /\ packets[k].count >= 1
        /\ packets[k].col + packets[k].count <= ptga.width
        /\ (packets[k].row * ptga.width) + packets[k].col = CoveredBy(k - 1)

\* the pixels not yet in a packet are those the counters hold; none at the
\* start of a row, and none at all once the loops are over
CountersAccount ==
    /\ (wpc = "rle" /\ j = 0) => (duplicates = 0 /\ different = 0)
    /\ wpc = "rle" =>
          CoveredBy(Len(packets)) = (i * ptga.width) + j - duplicates - different
    /\ ((wpc = "close" \/ (wpc = "returned" /\ wret = TRUE)) /\ type \in RleTypes)
       => CoveredBy(Len(packets)) = ptga.width * ptga.height

\* grows with every pass of the column loop, the tie-break's included
LoopMeasure == (2 * ((i * ptga.width) + j)) - duplicates - different
\* and cannot grow beyond this
MeasureLimit == 2 * ((ptga.width * ptga.height) + ptga.width)

\* C20: both counters are 0 whenever the column loop starts a row, every
\* packet covers pixels of one row only, the packets cover each pixel exactly
\* once from left to right, and the encoder loop terminates for every image:
\* a pass is always possible while the loop runs, and each pass, the
\* tie-break's too, raises a measure that has an upper limit.
C20_PacketsWithinRows ==
    /\ [](PacketsTileRows /\ CountersAccount)
    /\ [](wpc = "rle" => (ENABLED write_tga_rle_step /\ LoopMeasure < MeasureLimit))
    /\ [][wpc = "rle" =>
            /\ LoopMeasure' > LoopMeasure
            /\ LoopMeasure' <= MeasureLimit
            /\ wpc' \in {"rle", "close"}]_vars

\* two rows encoded, the second beginning with a packet of its own although
\* its first pixel equals the last pixel of the first row
C20_Witness ==
    /\ wpc = "returned" /\ wret = TRUE /\ type = "TGA_RGB_RLE"
    /\ ptga.height = 2 /\ ptga.width = 2
    /\ Px(ptga, 1) = Px(ptga, 2)
    /\ Len(packets) = 2
    /\ packets[2].row = 1 /\ packets[2].col = 0 /\ packets[2].kind = "run"

\* n <= w * h, for n, w, h >= 0
WithinPixels(n, w, h) == n = 0 \/ (w > 0 /\ (n + w - 1) \div w <= h)

\* C21: in every RLE branch of load_tga2, whatever the packet headers are,
\* the pixel index never passes width * height, so no packet is expanded
\* past the end of the pixel buffer, and every packet advances the pixel
\* index by at least 1.
C21_RleDecoderBounds ==
    /\ [](lpc \in {"rle", "finish"} /\ TheBranch \in RleBranches
          => WithinPixels(li, H_width(header), H_height(header)))
    /\ [][lpc = "rle" => li' >= li + 1]_vars

====
